---------------------------- MODULE Spec2Model ----------------------------
(* A model of tendalyze's CSV ingestion: etl/ingest_hudl_csv.py            *)
(* (get_or_create_team, get_or_create_game, normalize_formation,           *)
(* load_hudl_csv) and etl/ingest_teams_csv.py (load_teams_csv), run        *)
(* against a transactional relational store.                               *)
(*                                                                         *)
(* Strings that the code inspects character by character (formation       *)
(* labels) are sequences of one-character strings. CSV cells that the      *)
(* code only parses or compares (numbers, team names) are TLA+ strings.    *)
EXTENDS Integers, Sequences, FiniteSets, TLC

(***************************************************************************)
(* Python values                                                           *)
(***************************************************************************)

\* Python's None where a character sequence is expected. Its one element is
\* longer than a character, so it equals no character sequence.
None == <<"None">>

\* SQL NULL in a text column.
NULL == "<NULL>"

LowerLetters == <<"a", "b", "c", "d", "e", "f", "g", "h", "i", "j", "k", "l", "m",
                  "n", "o", "p", "q", "r", "s", "t", "u", "v", "w", "x", "y", "z">>

UpperLetters == <<"A", "B", "C", "D", "E", "F", "G", "H", "I", "J", "K", "L", "M",
                  "N", "O", "P", "Q", "R", "S", "T", "U", "V", "W", "X", "Y", "Z">>

Whitespace == {" ", "\t"}

IsLower(c) == \E i \in 1..Len(LowerLetters) : LowerLetters[i] = c

IsUpper(c) == \E i \in 1..Len(UpperLetters) : UpperLetters[i] = c

IsCased(c) == IsLower(c) \/ IsUpper(c)

\* str.lower() on one character.
LowerChar(c) ==
    IF IsUpper(c)
    THEN LowerLetters[CHOOSE i \in 1..Len(UpperLetters) : UpperLetters[i] = c]
    ELSE c

\* str.upper() on one character.
UpperChar(c) ==
    IF IsLower(c)
    THEN UpperLetters[CHOOSE i \in 1..Len(LowerLetters) : LowerLetters[i] = c]
    ELSE c

\* str.lower()
Lower(s) == [i \in 1..Len(s) |-> LowerChar(s[i])]

\* str.strip(): drops leading and trailing whitespace.
Strip(s) ==
    LET keep == {i \in 1..Len(s) : s[i] \notin Whitespace}
    IN  IF keep = {} THEN <<>>
        ELSE LET first == CHOOSE i \in keep : \A j \in keep : i <= j
                 last  == CHOOSE i \in keep : \A j \in keep : j <= i
             IN  SubSeq(s, first, last)

\* str.title(): a cased character is upper-cased when the character before it
\* is not cased (or it is the first), lower-cased otherwise; other characters
\* are kept.
Title(s) ==
    [i \in 1..Len(s) |->
        IF ~IsCased(s[i]) THEN s[i]
        ELSE IF i > 1 /\ IsCased(s[i - 1]) THEN LowerChar(s[i])
        ELSE UpperChar(s[i])]

\* Python's `sub in s` on strings.
Contains(sub, s) ==
    \E i \in 1..(Len(s) - Len(sub) + 1) : SubSeq(s, i, i + Len(sub) - 1) = sub

trips == <<"t", "r", "i", "p", "s">>
right == <<"r", "i", "g", "h", "t">>
left == <<"l", "e", "f", "t">>
double == <<"d", "o", "u", "b", "l", "e">>

TripsRight == <<"T", "r", "i", "p", "s", " ", "R", "i", "g", "h", "t">>
TripsLeft == <<"T", "r", "i", "p", "s", " ", "L", "e", "f", "t">>
Doubles == <<"D", "o", "u", "b", "l", "e", "s">>

\* A plausible slip: the "left" rule tried before the "right" rule.
normalize_formation_left_first(raw) ==
    IF raw = None \/ raw = <<>> THEN None
    ELSE LET f == Lower(Strip(raw))
         IN  IF Contains(trips, f) /\ Contains(left, f) THEN TripsLeft
             ELSE IF Contains(trips, f) /\ Contains(right, f) THEN TripsRight
             ELSE IF Contains(double, f) THEN Doubles
             ELSE Title(Strip(raw))

normalize_formation(raw) ==
    IF raw = None \/ raw = <<>> THEN None
    ELSE LET f == Lower(Strip(raw))
         IN  IF Contains(trips, f) /\ Contains(right, f) THEN TripsRight
             ELSE IF Contains(trips, f) /\ Contains(left, f) THEN TripsLeft
             ELSE IF Contains(double, f) THEN Doubles
             ELSE Title(Strip(raw))


(***************************************************************************)
(* Bounds of the model and the CSV cells it draws rows from                *)
(***************************************************************************)

\* Calls of load_hudl_csv / load_teams_csv in one behaviour.
MaxCalls == 2

\* CSV data rows read in one behaviour, over all calls.
MaxRows == 3

\* Chunks an input of normalize_formation is built from.
MaxChunks == 3

Names == {"Eagles", "Tigers"}

Cities == {"Austin", "Dallas"}

States == {"TX"}

\* Cells that Python's int() parses.
ParsesAsInt(c) == c \in {"0", "1", "2", "5", "10", "25", "2024", "2025"}

\* int(cell) of a cell that parses; a cell that does not raises ValueError.
int(c) ==
    CASE c = "0" -> 0
      [] c = "1" -> 1
      [] c = "2" -> 2
      [] c = "5" -> 5
      [] c = "10" -> 10
      [] c = "25" -> 25
      [] c = "2024" -> 2024
      [] c = "2025" -> 2025

MalformedCells == {"", "abc"}

SeasonWeekCells == {<<"2024", "1">>, <<"2024", "2">>, <<"2025", "1">>}

BaseRow ==
    [Season |-> "2024", Week |-> "1", OffenseTeam |-> "Eagles", DefenseTeam |-> "Tigers",
     Quarter |-> "1", Down |-> "1", Distance |-> "10", YardLine |-> "25",
     Formation |-> <<"i", "-", "f", "o", "r", "m">>, Yards |-> "5"]

NumericColumns == {"Season", "Week", "Quarter", "Down", "Distance", "YardLine", "Yards"}

\* The numeric columns of a play, in the order the loop body converts them.
PlayColumns == <<"Quarter", "Down", "Distance", "YardLine", "Yards">>

\* Offense and defense of a row: a pairing, the same with the roles swapped,
\* and one name in both roles.
Matchups == {<<"Eagles", "Tigers">>, <<"Tigers", "Eagles">>, <<"Eagles", "Eagles">>}

ValidRows ==
    {[BaseRow EXCEPT !.Season = sw[1], !.Week = sw[2],
                     !.OffenseTeam = m[1], !.DefenseTeam = m[2]] :
        sw \in SeasonWeekCells, m \in Matchups}

MalformedRows == {[BaseRow EXCEPT ![c] = m] : c \in NumericColumns, m \in MalformedCells}

\* Rows of a Hudl CSV (csv.DictReader over the CapitalCase header).
HudlRows == ValidRows \cup MalformedRows

\* Rows of a teams CSV; mascot, division, region and district are carried
\* through unchanged and decide nothing.
TeamsRows == {[team_name |-> n, city |-> c, state |-> s] : n \in Names, c \in Cities, s \in States}

\* Statements of the loop body at which the store may raise.
StorePoints == {"none", "team_off", "team_def", "game", "drive"}

(***************************************************************************)
(* The store                                                               *)
(***************************************************************************)

EmptyStore == [teams |-> {}, games |-> {}, drives |-> {}, plays |-> <<>>]

\* The serial columns behind RETURNING team_id / game_id / drive_id.
InitSeqs == [team |-> 0, game |-> 0, drive |-> 0]

\* x or None, on a character sequence.
OrNone(s) == IF s = <<>> THEN None ELSE s

\* A plausible slip: conn.autocommit = True, every statement commits at once.
autocommit_on == TRUE

\* conn.autocommit = False
autocommit == FALSE

\* SELECT team_id ... WHERE team_name = %s; fetchone(); else INSERT ... RETURNING.
\* The SELECT has no ORDER BY: with several matching rows any may come first.
get_or_create_team(st, sq, team_name) ==
    LET found == {t \in st.teams : t.team_name = team_name}
        id == sq.team + 1
    IN  IF found # {}
        THEN {[id |-> t.team_id, st |-> st, sq |-> sq] : t \in found}
        ELSE {[id |-> id,
               st |-> [st EXCEPT !.teams = @ \cup
                          {[team_id |-> id, team_name |-> team_name,
                            city |-> NULL, state |-> NULL]}],
               sq |-> [sq EXCEPT !.team = id]]}

NoGameCall ==
    [called |-> FALSE, season |-> 0, week |-> 0, home |-> 0, away |-> 0,
     ret |-> 0, before |-> {}]

\* A plausible slip: the lookup leaves out the week.
get_or_create_game_no_week(st, sq, season, week, home_team_id, away_team_id) ==
    LET found == {g \in st.games : g.season = season
                                   /\ g.home_team_id = home_team_id
                                   /\ g.away_team_id = away_team_id}
        id == sq.game + 1
        call == [called |-> TRUE, season |-> season, week |-> week,
                 home |-> home_team_id, away |-> away_team_id,
                 ret |-> id, before |-> st.games]
    IN  IF found # {}
        THEN {[id |-> g.game_id, st |-> st, sq |-> sq,
               call |-> [call EXCEPT !.ret = g.game_id]] : g \in found}
        ELSE {[id |-> id,
               st |-> [st EXCEPT !.games = @ \cup
                          {[game_id |-> id, season |-> season, week |-> week,
                            home_team_id |-> home_team_id,
                            away_team_id |-> away_team_id]}],
               sq |-> [sq EXCEPT !.game = id],
               call |-> call]}

\* SELECT game_id ... WHERE season, week, home_team_id, away_team_id all match;
\* fetchone(); else INSERT ... RETURNING game_id.
get_or_create_game(st, sq, season, week, home_team_id, away_team_id) ==
    LET found == {g \in st.games : g.season = season /\ g.week = week
                                   /\ g.home_team_id = home_team_id
                                   /\ g.away_team_id = away_team_id}
        id == sq.game + 1
        call == [called |-> TRUE, season |-> season, week |-> week,
                 home |-> home_team_id, away |-> away_team_id,
                 ret |-> id, before |-> st.games]
    IN  IF found # {}
        THEN {[id |-> g.game_id, st |-> st, sq |-> sq,
               call |-> [call EXCEPT !.ret = g.game_id]] : g \in found}
        ELSE {[id |-> id,
               st |-> [st EXCEPT !.games = @ \cup
                          {[game_id |-> id, season |-> season, week |-> week,
                            home_team_id |-> home_team_id,
                            away_team_id |-> away_team_id]}],
               sq |-> [sq EXCEPT !.game = id],
               call |-> call]}

(***************************************************************************)
(* The loop body of load_hudl_csv, as the set of its outcomes              *)
(***************************************************************************)

NoPlay == [drive_id |-> 0]

\* A plausible slip: the play is also written by an INSERT of its own inside
\* the loop, before the rest of the file is read.
Outcome_insert_each(kind, col, st, sq, off, def, game, play) ==
    [kind |-> kind, col |-> col,
     st |-> IF kind = "ok" THEN [st EXCEPT !.plays = Append(@, play)] ELSE st,
     sq |-> sq, off |-> off, def |-> def, game |-> game, play |-> play]

\* An outcome of one pass through the loop body: kind is "ok" or the exception
\* raised, col the column whose cell raised it, st and sq the store as the
\* transaction sees it and the serial counters, off and def the identifiers
\* get_or_create_team returned (none when it was not reached).
Outcome(kind, col, st, sq, off, def, game, play) ==
    [kind |-> kind, col |-> col, st |-> st, sq |-> sq,
     off |-> off, def |-> def, game |-> game, play |-> play]

\* The first play column whose cell int() rejects, "-" when all parse.
FirstMalformed(row) ==
    LET bad == {i \in 1..Len(PlayColumns) : ~ParsesAsInt(row[PlayColumns[i]])}
    IN  IF bad = {} THEN "-"
        ELSE PlayColumns[CHOOSE i \in bad : \A j \in bad : i <= j]

\* A plausible slip: the play takes the identifier of the drive inserted before
\* this row's, not the one RETURNING drive_id just gave.
InsertDriveAndBatch_stale_drive(o, d, g, row, fail) ==
    LET col == FirstMalformed(row)
        drive_id == g.sq.drive + 1
        formation_raw == OrNone(row.Formation)
    IN  IF col # "-"
        THEN Outcome("ValueError", col, g.st, g.sq, {o.id}, {d.id}, g.call, NoPlay)
        ELSE IF fail = "drive"
        THEN Outcome("StoreError", "-", g.st, g.sq, {o.id}, {d.id}, g.call, NoPlay)
        ELSE Outcome("ok", "-",
                     [g.st EXCEPT !.drives = @ \cup
                         {[drive_id |-> drive_id, game_id |-> g.id,
                           offense_team_id |-> o.id, defense_team_id |-> d.id]}],
                     [g.sq EXCEPT !.drive = drive_id],
                     {o.id}, {d.id}, g.call,
                     [drive_id |-> g.sq.drive, game_id |-> g.id,
                      offense_team_id |-> o.id, defense_team_id |-> d.id,
                      quarter |-> int(row.Quarter), down |-> int(row.Down),
                      distance |-> int(row.Distance), yard_line |-> int(row.YardLine),
                      formation_raw |-> formation_raw,
                      formation_norm |-> normalize_formation(formation_raw),
                      yards_gained |-> int(row.Yards)])

\* quarter = int(...) ... yards_gained = int(...), the drive INSERT and
\* plays_to_insert.append(...), after the game g of teams o and d is resolved.
InsertDriveAndBatch(o, d, g, row, fail) ==
    LET col == FirstMalformed(row)
        drive_id == g.sq.drive + 1
        formation_raw == OrNone(row.Formation)
    IN  IF col # "-"
        THEN Outcome("ValueError", col, g.st, g.sq, {o.id}, {d.id}, g.call, NoPlay)
        ELSE IF fail = "drive"
        THEN Outcome("StoreError", "-", g.st, g.sq, {o.id}, {d.id}, g.call, NoPlay)
        ELSE Outcome("ok", "-",
                     [g.st EXCEPT !.drives = @ \cup
                         {[drive_id |-> drive_id, game_id |-> g.id,
                           offense_team_id |-> o.id, defense_team_id |-> d.id]}],
                     [g.sq EXCEPT !.drive = drive_id],
                     {o.id}, {d.id}, g.call,
                     [drive_id |-> drive_id, game_id |-> g.id,
                      offense_team_id |-> o.id, defense_team_id |-> d.id,
                      quarter |-> int(row.Quarter), down |-> int(row.Down),
                      distance |-> int(row.Distance), yard_line |-> int(row.YardLine),
                      formation_raw |-> formation_raw,
                      formation_norm |-> normalize_formation(formation_raw),
                      yards_gained |-> int(row.Yards)])

\* game_id = get_or_create_game(cur, season, week, offense_team_id, defense_team_id)
ResolveGame(o, d, row, fail) ==
    IF fail = "game"
    THEN {Outcome("StoreError", "-", d.st, d.sq, {o.id}, {d.id}, NoGameCall, NoPlay)}
    ELSE {InsertDriveAndBatch(o, d, g, row, fail) :
            g \in get_or_create_game(d.st, d.sq, int(row.Season), int(row.Week), o.id, d.id)}

\* defense_team_id = get_or_create_team(cur, defense_team_name)
ResolveDefense(o, row, fail) ==
    IF fail = "team_def"
    THEN {Outcome("StoreError", "-", o.st, o.sq, {o.id}, {}, NoGameCall, NoPlay)}
    ELSE UNION {ResolveGame(o, d, row, fail) :
                  d \in get_or_create_team(o.st, o.sq, row.DefenseTeam)}

\* One pass through the body of `for row in reader`, with the store raising
\* at statement `fail` (or at none).
LoopBody(st, sq, row, fail) ==
    IF ~ParsesAsInt(row.Season)
    THEN {Outcome("ValueError", "Season", st, sq, {}, {}, NoGameCall, NoPlay)}
    ELSE IF ~ParsesAsInt(row.Week)
    THEN {Outcome("ValueError", "Week", st, sq, {}, {}, NoGameCall, NoPlay)}
    ELSE IF fail = "team_off"
    THEN {Outcome("StoreError", "-", st, sq, {}, {}, NoGameCall, NoPlay)}
    ELSE UNION {ResolveDefense(o, row, fail) :
                  o \in get_or_create_team(st, sq, row.OffenseTeam)}

\* execute_batch(..., page_size=100)
page_size == 100

\* The pages execute_batch sends, each one statement.
NumPages(n) == (n + page_size - 1) \div page_size

\* The plays of the first k pages.
FirstPages(batch, k) ==
    SubSeq(batch, 1, IF k * page_size < Len(batch) THEN k * page_size ELSE Len(batch))

(***************************************************************************)
(* The loop body of load_teams_csv                                         *)
(***************************************************************************)

\* The constraint teams_unique_name_city_state: two rows conflict when they
\* agree on team name, city and state.
teams_unique_name_city_state(t, row) ==
    t.team_name = row.team_name /\ t.city = row.city /\ t.state = row.state

\* INSERT INTO teams ... ON CONFLICT ON CONSTRAINT teams_unique_name_city_state
\* DO NOTHING; rowcount is the number of rows inserted.
insert_team(st, sq, row) ==
    LET id == sq.team + 1
    IN  IF \E t \in st.teams : teams_unique_name_city_state(t, row)
        THEN [st |-> st, sq |-> sq, rowcount |-> 0]
        ELSE [st |-> [st EXCEPT !.teams = @ \cup
                         {[team_id |-> id, team_name |-> row.team_name,
                           city |-> row.city, state |-> row.state]}],
              sq |-> [sq EXCEPT !.team = id],
              rowcount |-> 1]

\* A plausible slip: the two counters swapped.
count_row_swapped(rowcount, counts) ==
    IF rowcount = 1
    THEN [counts EXCEPT !.skipped = @ + 1]
    ELSE [counts EXCEPT !.inserted = @ + 1]

\* if cur.rowcount == 1: inserted += 1 else: skipped += 1
count_row(rowcount, counts) ==
    IF rowcount = 1
    THEN [counts EXCEPT !.inserted = @ + 1]
    ELSE [counts EXCEPT !.skipped = @ + 1]

(***************************************************************************)
(* State                                                                   *)
(***************************************************************************)

VARIABLES
    DATABASE_URL,     \* whether the environment sets DATABASE_URL
    db,               \* the committed store
    seqs,             \* the store's serial counters (never rolled back)
    pc,               \* where the running call is
    fn,               \* the function running, or that ran last
    conn, cur,        \* the call's connection and cursor: "none", "open", "closed"
    tx,               \* the store as the call's open transaction sees it
    plays_to_insert,  \* load_hudl_csv's batch
    counts,           \* load_teams_csv's inserted and skipped
    rowsDone,         \* rows of this call whose loop body completed
    error, errcol,    \* the exception the call raised, and the column behind it
    db0,              \* history: the committed store when the call began
    teamRet,          \* history: identifiers get_or_create_team returned in this call, by name
    lastGame,         \* history: the last get_or_create_game call of this call
    calls, rows,      \* calls begun and rows read so far, for the bounds
    raw, nchunks, out, out2, npc   \* normalize_formation's input, result, result on the result

storeVars ==
    <<DATABASE_URL, db, seqs, pc, fn, conn, cur, tx, plays_to_insert, counts, rowsDone,
      error, errcol, db0, teamRet, lastGame, calls, rows>>

normVars == <<raw, nchunks, out, out2, npc>>

vars == <<storeVars, normVars>>

StoreInit ==
    /\ db = EmptyStore
    /\ seqs = InitSeqs
    /\ pc = "idle"
    /\ fn = "none"
    /\ conn = "none"
    /\ cur = "none"
    /\ tx = EmptyStore
    /\ plays_to_insert = <<>>
    /\ counts = [inserted |-> 0, skipped |-> 0]
    /\ rowsDone = 0
    /\ error = "none"
    /\ errcol = "-"
    /\ db0 = EmptyStore
    /\ teamRet = [n \in Names |-> {}]
    /\ lastGame = NoGameCall
    /\ calls = 0
    /\ rows = 0

NormIdle ==
    /\ raw = <<>>
    /\ nchunks = 0
    /\ out = None
    /\ out2 = None
    /\ npc = "build"

Init ==
    /\ DATABASE_URL \in BOOLEAN
    /\ StoreInit
    /\ NormIdle

(***************************************************************************)
(* Steps shared by the two loaders                                         *)
(***************************************************************************)

CanBegin == pc \in {"idle", "returned", "raised"} /\ calls < MaxCalls

\* The locals of a fresh call; the transaction starts from the committed store.
BeginCall(f) ==
    /\ fn' = f
    /\ calls' = calls + 1
    /\ tx' = db
    /\ db0' = db
    /\ plays_to_insert' = <<>>
    /\ counts' = [inserted |-> 0, skipped |-> 0]
    /\ rowsDone' = 0
    /\ teamRet' = [n \in Names |-> {}]
    /\ lastGame' = NoGameCall

\* An exception leaves the function: nothing catches it, nothing runs after it.
Raise(kind, col) ==
    /\ pc' = "raised"
    /\ error' = kind
    /\ errcol' = col

\* The store after a statement of load_hudl_csv's transaction.
Committed(st) == IF autocommit THEN st ELSE db

(***************************************************************************)
(* load_hudl_csv                                                           *)
(***************************************************************************)

\* conn = get_connection(); conn.autocommit = False; cur = conn.cursor();
\* plays_to_insert = []
HudlConnect ==
    /\ CanBegin
    /\ BeginCall("load_hudl_csv")
    /\ IF DATABASE_URL
       THEN /\ conn' = "open"
            /\ cur' = "open"
            /\ pc' = "h_open"
            /\ error' = "none"
            /\ errcol' = "-"
       ELSE /\ conn' = "none"
            /\ cur' = "none"
            /\ Raise("RuntimeError", "-")
    /\ UNCHANGED <<DATABASE_URL, db, seqs, rows, normVars>>

\* with open(csv_path, ...) as f: reader = csv.DictReader(f)
HudlOpenCsv ==
    /\ pc = "h_open"
    /\ \E found \in BOOLEAN :
          IF found
          THEN pc' = "h_loop" /\ UNCHANGED <<error, errcol>>
          ELSE Raise("OSError", "-")
    /\ UNCHANGED <<DATABASE_URL, db, seqs, fn, conn, cur, tx, plays_to_insert, counts,
                   rowsDone, db0, teamRet, lastGame, calls, rows, normVars>>

\* One row of `for row in reader`.
HudlRow ==
    /\ pc = "h_loop"
    /\ rows < MaxRows
    /\ \E row \in HudlRows, fail \in StorePoints :
          \E o \in LoopBody(tx, seqs, row, fail) :
             /\ tx' = o.st
             /\ seqs' = o.sq
             /\ db' = Committed(o.st)
             /\ teamRet' = [n \in Names |->
                               teamRet[n]
                               \cup (IF n = row.OffenseTeam THEN o.off ELSE {})
                               \cup (IF n = row.DefenseTeam THEN o.def ELSE {})]
             /\ lastGame' = IF o.game.called THEN o.game ELSE lastGame
             /\ IF o.kind = "ok"
                THEN /\ plays_to_insert' = Append(plays_to_insert, o.play)
                     /\ rowsDone' = rowsDone + 1
                     /\ UNCHANGED <<pc, error, errcol>>
                ELSE /\ Raise(o.kind, o.col)
                     /\ UNCHANGED <<plays_to_insert, rowsDone>>
    /\ rows' = rows + 1
    /\ UNCHANGED <<DATABASE_URL, fn, conn, cur, counts, db0, calls, normVars>>

\* The reader is exhausted: the loop and the with block end.
HudlEndOfFile ==
    /\ pc = "h_loop"
    /\ pc' = "h_batch"
    /\ UNCHANGED <<DATABASE_URL, db, seqs, fn, conn, cur, tx, plays_to_insert, counts,
                   rowsDone, error, errcol, db0, teamRet, lastGame, calls, rows, normVars>>

\* execute_batch(cur, "INSERT INTO plays ...", plays_to_insert, page_size=100):
\* the store raises at page failPage, or at none (0).
HudlExecuteBatch ==
    /\ pc = "h_batch"
    /\ \E failPage \in 0..NumPages(Len(plays_to_insert)) :
          IF failPage = 0
          THEN /\ tx' = [tx EXCEPT !.plays = @ \o plays_to_insert]
               /\ pc' = "h_commit"
               /\ UNCHANGED <<error, errcol>>
          ELSE /\ tx' = [tx EXCEPT !.plays = @ \o FirstPages(plays_to_insert, failPage - 1)]
               /\ Raise("StoreError", "-")
    /\ db' = Committed(tx')
    /\ UNCHANGED <<DATABASE_URL, seqs, fn, conn, cur, plays_to_insert, counts, rowsDone,
                   db0, teamRet, lastGame, calls, rows, normVars>>

\* conn.commit()
HudlCommit ==
    /\ pc = "h_commit"
    /\ db' = tx
    /\ pc' = "h_close"
    /\ UNCHANGED <<DATABASE_URL, seqs, fn, conn, cur, tx, plays_to_insert, counts, rowsDone,
                   error, errcol, db0, teamRet, lastGame, calls, rows, normVars>>

\* cur.close(); conn.close(); print(...)
HudlClose ==
    /\ pc = "h_close"
    /\ cur' = "closed"
    /\ conn' = "closed"
    /\ pc' = "returned"
    /\ UNCHANGED <<DATABASE_URL, db, seqs, fn, tx, plays_to_insert, counts, rowsDone,
                   error, errcol, db0, teamRet, lastGame, calls, rows, normVars>>

(***************************************************************************)
(* load_teams_csv                                                          *)
(***************************************************************************)

\* db_url = os.getenv(...); conn = psycopg2.connect(db_url); cur = conn.cursor();
\* inserted = 0; skipped = 0
TeamsConnect ==
    /\ CanBegin
    /\ BeginCall("load_teams_csv")
    /\ IF DATABASE_URL
       THEN /\ conn' = "open"
            /\ cur' = "open"
            /\ pc' = "t_open"
            /\ error' = "none"
            /\ errcol' = "-"
       ELSE /\ conn' = "none"
            /\ cur' = "none"
            /\ Raise("RuntimeError", "-")
    /\ UNCHANGED <<DATABASE_URL, db, seqs, rows, normVars>>

\* with open(csv_path, ...) as f: reader = csv.DictReader(f)
TeamsOpenCsv ==
    /\ pc = "t_open"
    /\ \E found \in BOOLEAN :
          IF found
          THEN pc' = "t_loop" /\ UNCHANGED <<error, errcol>>
          ELSE Raise("OSError", "-")
    /\ UNCHANGED <<DATABASE_URL, db, seqs, fn, conn, cur, tx, plays_to_insert, counts,
                   rowsDone, db0, teamRet, lastGame, calls, rows, normVars>>

\* One row of `for row in reader`: the INSERT ... ON CONFLICT DO NOTHING and
\* the count, or the store raising at the INSERT.
TeamsRow ==
    /\ pc = "t_loop"
    /\ rows < MaxRows
    /\ \E row \in TeamsRows, fail \in BOOLEAN :
          IF fail
          THEN /\ Raise("StoreError", "-")
               /\ UNCHANGED <<tx, seqs, counts, rowsDone>>
          ELSE LET r == insert_team(tx, seqs, row)
               IN  /\ tx' = r.st
                   /\ seqs' = r.sq
                   /\ counts' = count_row(r.rowcount, counts)
                   /\ rowsDone' = rowsDone + 1
                   /\ UNCHANGED <<pc, error, errcol>>
    /\ rows' = rows + 1
    /\ UNCHANGED <<DATABASE_URL, db, fn, conn, cur, plays_to_insert, db0, teamRet,
                   lastGame, calls, normVars>>

\* The reader is exhausted.
TeamsEndOfFile ==
    /\ pc = "t_loop"
    /\ pc' = "t_commit"
    /\ UNCHANGED <<DATABASE_URL, db, seqs, fn, conn, cur, tx, plays_to_insert, counts,
                   rowsDone, error, errcol, db0, teamRet, lastGame, calls, rows, normVars>>

\* conn.commit()
TeamsCommit ==
    /\ pc = "t_commit"
    /\ db' = tx
    /\ pc' = "t_close"
    /\ UNCHANGED <<DATABASE_URL, seqs, fn, conn, cur, tx, plays_to_insert, counts, rowsDone,
                   error, errcol, db0, teamRet, lastGame, calls, rows, normVars>>

\* cur.close(); conn.close(); return inserted, skipped
TeamsClose ==
    /\ pc = "t_close"
    /\ cur' = "closed"
    /\ conn' = "closed"
    /\ pc' = "returned"
    /\ UNCHANGED <<DATABASE_URL, db, seqs, fn, tx, plays_to_insert, counts, rowsDone,
                   error, errcol, db0, teamRet, lastGame, calls, rows, normVars>>

Next ==
    \/ HudlConnect
    \/ HudlOpenCsv
    \/ HudlRow
    \/ HudlEndOfFile
    \/ HudlExecuteBatch
    \/ HudlCommit
    \/ HudlClose
    \/ TeamsConnect
    \/ TeamsOpenCsv
    \/ TeamsRow
    \/ TeamsEndOfFile
    \/ TeamsCommit
    \/ TeamsClose

Spec == Init /\ [][Next]_vars

(***************************************************************************)
(* normalize_formation on its own                                          *)
(***************************************************************************)

\* The pieces inputs are built from.
Chunks ==
    {trips, <<"T", "R", "I", "P", "S">>, right, <<"R", "i", "g", "h", "t">>, left, double,
     <<" ">>, <<"i", "-", "f", "o", "r", "m">>, <<"H", "e", "a", "v", "y">>}

NormInit ==
    /\ DATABASE_URL = TRUE
    /\ StoreInit
    /\ raw \in {<<>>, None}
    /\ nchunks = 0
    /\ out = None
    /\ out2 = None
    /\ npc = "build"

\* The caller's string grows by one piece.
NormAppend ==
    /\ npc = "build"
    /\ raw # None
    /\ nchunks < MaxChunks
    /\ \E c \in Chunks : raw' = raw \o c
    /\ nchunks' = nchunks + 1
    /\ UNCHANGED <<out, out2, npc, storeVars>>

\* out = normalize_formation(raw)
NormApply ==
    /\ npc = "build"
    /\ out' = normalize_formation(raw)
    /\ npc' = "applied"
    /\ UNCHANGED <<raw, nchunks, out2, storeVars>>

\* out2 = normalize_formation(out)
NormReapply ==
    /\ npc = "applied"
    /\ out2' = normalize_formation(out)
    /\ npc' = "reapplied"
    /\ UNCHANGED <<raw, nchunks, out, storeVars>>

NormNext ==
    \/ NormAppend
    \/ NormApply
    \/ NormReapply

NormSpec == NormInit /\ [][NormNext]_vars

(***************************************************************************)
(* Properties                                                              *)
(***************************************************************************)

InHudl == fn = "load_hudl_csv"

InTeams == fn = "load_teams_csv"

\* The Play rows the committed store holds beyond those it held when the
\* call began.
NewPlays == SubSeq(db.plays, Len(db0.plays) + 1, Len(db.plays))

SameTriple(t1, t2) ==
    t1.team_name = t2.team_name /\ t1.city = t2.city /\ t1.state = t2.state

SameGameKey(g1, g2) ==
    /\ g1.season = g2.season
    /\ g1.week = g2.week
    /\ g1.home_team_id = g2.home_team_id
    /\ g1.away_team_id = g2.away_team_id

\* C1: when load_hudl_csv has failed, at whatever point (a malformed cell, the
\* store raising in get_or_create_team, get_or_create_game, the drive insert
\* or the bulk play insert, the file not opening), the committed store equals
\* the committed store when the call began.
C1_FailedCallLeavesStoreUnchanged == (InHudl /\ pc = "raised") => db = db0

\* C1's case: the store fails after two rows have been batched; their teams,
\* game and drives are written in the open transaction and none is committed.
C1_Witness ==
    /\ InHudl
    /\ pc = "raised"
    /\ error = "StoreError"
    /\ Len(plays_to_insert) = 2
    /\ Cardinality(tx.drives) = Cardinality(db.drives) + 2
    /\ tx.teams # db.teams

\* C2: a malformed cell in a play's numeric columns (Quarter, Down, Distance,
\* YardLine, Yards) never aborts load_hudl_csv.
C2_MalformedPlayCellNeverAborts ==
    ~(InHudl /\ pc = "raised" /\ error = "ValueError"
      /\ errcol \in {"Quarter", "Down", "Distance", "YardLine", "Yards"})

\* C3: within one run of load_hudl_csv the get_or_create_team calls with one
\* name all return the same identifier, and the run adds at most one Team row
\* for the name, none when a row with the name existed.
C3_OneTeamPerNameInRun ==
    InHudl =>
        \A n \in Names :
            LET added == {t \in tx.teams \ db0.teams : t.team_name = n}
            IN  /\ Cardinality(teamRet[n]) <= 1
                /\ Cardinality(added) <= 1
                /\ (\E t \in db0.teams : t.team_name = n) => added = {}

\* C4: after any sequence of serialized load_hudl_csv and load_teams_csv calls
\* the committed store holds no two Team records with the same team name, so
\* that a name has one identifier for get_or_create_team to return.
C4_OneTeamPerName ==
    \A t1, t2 \in db.teams : t1.team_name = t2.team_name => t1 = t2

\* C5: all Play records a successful load_hudl_csv call created carry the same
\* game identifier, whatever the rows' Season, Week, OffenseTeam, DefenseTeam.
C5_OneGamePerCsv ==
    (InHudl /\ pc = "returned") =>
        \A i, j \in 1..Len(NewPlays) : NewPlays[i].game_id = NewPlays[j].game_id

\* C6: normalize_formation applies its rules in order on the lower-cased,
\* trimmed input, first match winning: "trips" and "right" give "Trips Right"
\* (whatever else the input contains), else "trips" and "left" give
\* "Trips Left", else "double" gives "Doubles", else the trimmed input
\* title-cased; an empty or absent input gives None.
C6_RuleOrder ==
    npc # "build" =>
        IF raw = None \/ raw = <<>> THEN out = None
        ELSE LET f == Lower(Strip(raw))
                 rule1 == Contains(trips, f) /\ Contains(right, f)
                 rule2 == Contains(trips, f) /\ Contains(left, f)
                 rule3 == Contains(double, f)
             IN  /\ rule1 => out = TripsRight
                 /\ (~rule1 /\ rule2) => out = TripsLeft
                 /\ (~rule1 /\ ~rule2 /\ rule3) => out = Doubles
                 /\ (~rule1 /\ ~rule2 /\ ~rule3) => out = Title(Strip(raw))

\* C6's case: an input that holds "trips", "left" and "right" has been
\* normalized, the first rule winning over the second.
C6_Witness ==
    /\ npc = "applied"
    /\ raw # None
    /\ Contains(trips, Lower(raw))
    /\ Contains(left, Lower(raw))
    /\ Contains(right, Lower(raw))
    /\ out = TripsRight

\* C7: normalize_formation is idempotent: applied to its own result it
\* returns that result.
C7_Idempotent == npc = "reapplied" => out2 = out

\* C8: when control has left load_hudl_csv or load_teams_csv, by return or by
\* an exception, the cursor and the connection the call acquired are closed.
C8_ClosedOnEveryExit ==
    pc \in {"returned", "raised"} =>
        /\ conn \in {"none", "closed"}
        /\ cur \in {"none", "closed"}

\* C9: load_teams_csv creates no second Team row for a (name, city, state)
\* triple in the store or earlier in the file; inserted counts the rows that
\* created a Team, skipped the others, and together they count the rows
\* processed.
C9_TeamsLoaderSkipsDuplicates ==
    InTeams =>
        /\ \A t1, t2 \in tx.teams : SameTriple(t1, t2) => t1 = t2
        /\ counts.inserted = Cardinality(tx.teams) - Cardinality(db0.teams)
        /\ counts.inserted + counts.skipped = rowsDone

\* C9's case: a teams file has been loaded in which one row created a Team and
\* another repeated a triple already there.
C9_Witness ==
    /\ InTeams
    /\ pc = "returned"
    /\ counts.inserted >= 1
    /\ counts.skipped >= 1
    /\ db = tx

\* C10: a get_or_create_game call whose season, week and two team identifiers
\* match an existing Game returns that Game's identifier and inserts nothing;
\* otherwise it inserts exactly one Game with those fields under a new
\* identifier. So no two Games share the four fields, and different fields
\* mean different Games.
C10_GameLookupOrCreate ==
    /\ \A g1, g2 \in tx.games :
          (SameGameKey(g1, g2) \/ g1.game_id = g2.game_id) => g1 = g2
    /\ \A g1, g2 \in db.games :
          (SameGameKey(g1, g2) \/ g1.game_id = g2.game_id) => g1 = g2
    /\ (InHudl /\ lastGame.called) =>
          LET key == [season |-> lastGame.season, week |-> lastGame.week,
                      home_team_id |-> lastGame.home, away_team_id |-> lastGame.away]
              match == {g \in lastGame.before : SameGameKey(g, key)}
          IN  IF match # {}
              THEN /\ lastGame.ret \in {g.game_id : g \in match}
                   /\ tx.games = lastGame.before
              ELSE /\ lastGame.ret \notin {g.game_id : g \in lastGame.before}
                   /\ tx.games = lastGame.before \cup
                         {[game_id |-> lastGame.ret, season |-> lastGame.season,
                           week |-> lastGame.week, home_team_id |-> lastGame.home,
                           away_team_id |-> lastGame.away]}

\* C10's case: a call has found its Game in a store that also holds the Game
\* of the same season and week with the two teams' roles swapped.
C10_Witness ==
    /\ InHudl
    /\ lastGame.called
    /\ lastGame.ret \in {g.game_id : g \in lastGame.before}
    /\ lastGame.home # lastGame.away
    /\ \E g \in tx.games :
          /\ g.season = lastGame.season
          /\ g.week = lastGame.week
          /\ g.home_team_id = lastGame.away
          /\ g.away_team_id = lastGame.home
          /\ g.game_id # lastGame.ret

\* The Drive rows the committed store holds beyond those it held when the
\* call began.
NewDrives == db.drives \ db0.drives

\* C11: a successful load_hudl_csv call on an N-row CSV adds exactly N Drive
\* rows and N Play rows; the i-th new Play references the Drive this call
\* created for row i, no two Plays the same Drive; that Drive's game and team
\* references are the Play's, and they resolve to rows of the committed store.
C11_OneDriveAndPlayPerRow ==
    (InHudl /\ pc \in {"h_close", "returned"}) =>
        /\ Cardinality(NewDrives) = rowsDone
        /\ Len(NewPlays) = rowsDone
        /\ NewPlays = plays_to_insert
        /\ \A i \in 1..Len(NewPlays) :
              LET p == NewPlays[i]
              IN  /\ \E dr \in NewDrives :
                        /\ dr.drive_id = p.drive_id
                        /\ dr.game_id = p.game_id
                        /\ dr.offense_team_id = p.offense_team_id
                        /\ dr.defense_team_id = p.defense_team_id
                  /\ \A dr \in db.drives :
                        dr.drive_id = p.drive_id => dr \in NewDrives
                  /\ \A j \in 1..Len(NewPlays) :
                        i < j => p.drive_id < NewPlays[j].drive_id
                  /\ \E g \in db.games :
                        /\ g.game_id = p.game_id
                        /\ g.home_team_id = p.offense_team_id
                        /\ g.away_team_id = p.defense_team_id
                  /\ \E t \in db.teams : t.team_id = p.offense_team_id
                  /\ \E t \in db.teams : t.team_id = p.defense_team_id

\* C11's case: a two-row file has been loaded into a store that already held
\* the drive and the play of an earlier file.
C11_Witness ==
    /\ InHudl
    /\ pc = "returned"
    /\ rowsDone = 2
    /\ Len(NewPlays) = 2
    /\ Cardinality(NewDrives) = 2
    /\ Len(db0.plays) = 1
    /\ db0.drives # {}

\* Where a load_hudl_csv call that holds a connection and has not left can be.
HudlSteps == {"h_open", "h_loop", "h_batch", "h_commit", "h_close"}

\* C12: in a load_hudl_csv call no Play row is written until every row has
\* been read and its Drive inserted; the batch grows by one play per row, at
\* its end; the plays are then written by the one bulk step, in that order;
\* the call commits once, after the bulk step has succeeded, and on no path
\* where a step before it failed.
C12_BulkInsertThenCommit ==
    [][(InHudl /\ pc \in HudlSteps) =>
          /\ tx'.plays # tx.plays =>
                /\ pc = "h_batch"
                /\ rowsDone = Len(plays_to_insert)
                /\ Cardinality(tx.drives \ db0.drives) = Len(plays_to_insert)
          /\ plays_to_insert' # plays_to_insert =>
                /\ pc = "h_loop"
                /\ Len(plays_to_insert') = Len(plays_to_insert) + 1
                /\ SubSeq(plays_to_insert', 1, Len(plays_to_insert)) = plays_to_insert
                /\ rowsDone' = Len(plays_to_insert')
          /\ pc' = "h_commit" =>
                /\ pc = "h_batch"
                /\ error' = "none"
                /\ tx.plays = db0.plays
                /\ tx'.plays = db0.plays \o plays_to_insert
          /\ (db' # db \/ pc = "h_commit") =>
                /\ pc = "h_commit"
                /\ pc' = "h_close"
                /\ error = "none"
                /\ db = db0
                /\ db' = tx
                /\ tx.plays = db0.plays \o plays_to_insert
          /\ pc' = "raised" => db' = db0
      ]_vars

\* C12's case: two rows have been read, the bulk step has written their two
\* plays in the open transaction, and the commit has not happened yet.
C12_Witness ==
    /\ InHudl
    /\ pc = "h_commit"
    /\ Len(plays_to_insert) = 2
    /\ tx.plays = db0.plays \o plays_to_insert
    /\ db = db0
    /\ db.plays # tx.plays

=============================================================================
